---- MODULE Spec2Model ----
(***************************************************************************)
(* Authentication flow of the contacts backend (src/src/routes/auth.py):   *)
(* signup, login, refresh-token rotation, e-mail confirmation and password *)
(* reset, over an account store keyed by e-mail, and the contact           *)
(* repository (src/src/repository/contacts.py).  The handlers are          *)
(* coroutines: a request runs from one awaited database call to the next    *)
(* and is suspended there while other requests run.  A handler is           *)
(* therefore one action per stretch between its awaits, joined by a record  *)
(* of the suspended request.  No handler moves the clock.  The              *)
(* collaborators the handlers call (repositories_users, auth_service,      *)
(* send_email) are not part of the source tree; they are modelled from the *)
(* specification's description.                                            *)
(***************************************************************************)
EXTENDS Integers, Sequences, FiniteSets, TLC

VARIABLES
    users,    \* account store: e-mail -> account row (domain = existing accounts)
    now,      \* logical clock, in ticks
    issued,   \* unexpired refresh tokens the service returned to clients
    mailbox,  \* unexpired mail tokens delivered to clients, with the mail's kind
    bg,       \* background tasks queued by bt.add_task, not yet run
    resp,     \* the step just taken: the response it sent, or that it suspended
    contacts, \* contact table: id -> row (domain = ids of existing rows)
    next_id,  \* the id the table gives to the next inserted row
    ret,      \* the step of a contact-repository call just taken and its result
    inflight, \* suspended requests: slot -> what the handler holds at its await
    calls,    \* suspended contact-repository calls: slot -> what the call holds
    exchanged, \* history: refresh token two requests raced on -> tokens returned
    update_token_writes \* what the deployed update_token writes, see UpdateTokenWrites

vars == <<users, now, issued, mailbox, bg, resp, inflight>>

cvars == <<contacts, next_id, ret, calls>>

hvars == <<exchanged>>

dvars == <<update_token_writes>>

allvars == <<vars, cvars, hvars, dvars>>

---------------------------------------------------------------------------
(* Bounds of the model *)

MaxTime == 3

MaxPending == 1

\* Mails a client's mailbox holds; a mail beyond that is lost.
MaxMail == 1

\* Addresses requests name; the explored runs register the first one only.
Emails == {"a@x.com", "b@x.com"}

SignupEmails == {"a@x.com"}

Passwords == {"pw1", "pw2"}

\* Requests that can be suspended at the same time.
Requests == {"r1", "r2"}

---------------------------------------------------------------------------
(* Token Codec (auth_service) *)

\* Lifetimes in ticks: refresh tokens live longest, access tokens shortest.
REFRESH_TTL == 3

EMAIL_TTL == 2

ACCESS_TTL == 1

NoToken == [sub |-> "", scope |-> "none", iat |-> 0]

\* A string that is not a token signed with the service's key.
BadToken == [sub |-> "", scope |-> "garbage", iat |-> 0]

TokenTTL(scope) ==
    IF scope = "refresh_token" THEN REFRESH_TTL
    ELSE IF scope = "access_token" THEN ACCESS_TTL
    ELSE EMAIL_TTL

create_access_token(sub) == [sub |-> sub, scope |-> "access_token", iat |-> now]

create_refresh_token(sub) == [sub |-> sub, scope |-> "refresh_token", iat |-> now]

create_email_token(sub) == [sub |-> sub, scope |-> "email_token", iat |-> now]

MailTokens == {m.token : m \in mailbox}

\* Tokens that carry the service's signature and are in a client's hands.
Signed == issued \cup MailTokens

Expired(token, time) == time >= token.iat + TokenTTL(token.scope)

\* decode: signature verifies, not expired, purpose tag as expected.
TokenDecodes(token, scope) ==
    /\ token \in Signed
    /\ token.scope = scope
    /\ ~Expired(token, now)

decode_refresh_token_ok(token) == TokenDecodes(token, "refresh_token")

get_email_from_token_ok(token) == TokenDecodes(token, "email_token")

---------------------------------------------------------------------------
(* Credential Verifier (auth_service) *)

get_password_hash(password) == [hashed |-> password]

verify_password(password, hash) == hash.hashed = password

---------------------------------------------------------------------------
(* Account Store (repositories_users) *)

UserExists(email) == email \in DOMAIN users

create_user(email, hash) ==
    [e \in DOMAIN users \cup {email} |->
        IF e = email
        THEN [password |-> hash, confirmed |-> FALSE, refresh_token |-> NoToken]
        ELSE users[e]]

\* repositories_users.update_token(user, token, db) is handed the account
\* object the handler's lookup returned and the handler's database session;
\* its body is not part of the source tree.  It stores the token it is given
\* either by writing the column whatever it held ("always"), or by setting
\* user.refresh_token on the object it was handed and committing the
\* session, which writes the column only when the value set differs from the
\* value that object was loaded with ("net change").  A deployment does one
\* or the other throughout.
UpdateTokenWrites == {"always", "net change"}

\* Whether the commit update_token makes has a write to do, for a token set
\* on an account object that was loaded holding `loaded`.
update_token_changed(loaded, token) ==
    update_token_writes = "always" \/ token # loaded

\* The stored token after update_token: overwritten when there is a write to do.
update_token(email, changed, token) ==
    IF changed THEN [users EXCEPT ![email].refresh_token = token] ELSE users

repo_confirmed_email(email) ==
    [users EXCEPT ![email].confirmed = TRUE]

\* The hash of new_password replaces the stored one.
update_password(email, new_password) ==
    [users EXCEPT ![email].password = get_password_hash(new_password)]

---------------------------------------------------------------------------
(* Responses *)

Resp(op, status, detail, email, token, access, refresh, enq) ==
    [op |-> op, status |-> status, detail |-> detail, email |-> email,
     token |-> token, access_token |-> access, refresh_token |-> refresh,
     enq |-> enq]

\* No response is on its way to a client.
NoResponse == Resp("none", 0, "", "", NoToken, NoToken, NoToken, 0)

\* What a suspended handler holds: the await it stands at and its locals.
\* changed: the update_token the handler awaits has a write to do.
Request(pc, email, password, token, access, refresh, changed) ==
    [pc |-> pc, email |-> email, password |-> password, token |-> token,
     access |-> access, refresh |-> refresh, changed |-> changed]

Idle == Request("idle", "", "", NoToken, NoToken, NoToken, FALSE)

\* The slot a request that suspends is kept in.
NextSlot == IF inflight["r1"] = Idle THEN "r1" ELSE "r2"

Suspend(r, request) ==
    /\ inflight[r] = Idle
    /\ inflight' = [inflight EXCEPT ![r] = request]
    /\ resp' = NoResponse

\* The request in slot r goes on from one await to the next.
Move(r, request) ==
    /\ inflight' = [inflight EXCEPT ![r] = request]
    /\ resp' = NoResponse

\* The request in slot r is over; the one still suspended keeps slot r1.
Resume(r) ==
    inflight' = IF r = "r1" THEN [r1 |-> inflight["r2"], r2 |-> Idle]
                ELSE [inflight EXCEPT ![r] = Idle]

\* Contact-repository calls that can be suspended at the same time.
Calls == {"c1", "c2"}

\* What a suspended repository call holds: the await it stands at, the
\* caller, the row's id, the attributes set on the loaded row that differ
\* from what was loaded, and the row as it was loaded.
Call(pc, user, id, changes, loaded) ==
    [pc |-> pc, user |-> user, id |-> id, changes |-> changes, loaded |-> loaded]

NoContact == [id |-> 0]

NoCall == Call("idle", "", 0, <<>>, NoContact)

\* What a call returned (row, rows) or the exception it raised.
Ret(op, user, id, row, rows, raised) ==
    [op |-> op, user |-> user, id |-> id, row |-> row, rows |-> rows,
     raised |-> raised]

\* No call has just returned.
NoReturn == Ret("none", "", 0, NoContact, {}, "")

Init ==
    /\ users = [e \in {} |-> 0]
    /\ now = 0
    /\ issued = {}
    /\ mailbox = {}
    /\ bg = << >>
    /\ resp = NoResponse
    /\ contacts = [i \in {} |-> 0]
    /\ next_id = 1
    /\ inflight = [r \in Requests |-> Idle]
    /\ ret = NoReturn
    /\ calls = [c \in Calls |-> NoCall]
    /\ exchanged = [t \in {} |-> << >>]
    /\ update_token_writes \in UpdateTokenWrites

---------------------------------------------------------------------------
(* Notification Dispatcher *)

\* A queued send_email call.  A confirmation mail builds its own verification
\* token when it runs (token = NoToken here); a reset mail carries the token
\* the handler made.
Task(email, token) == [to |-> email, token |-> token]

\* send_email runs after the response; a delivery failure is swallowed.
Mail(token, kind) == [token |-> token, kind |-> kind]

\* An expired token is rejected like any unsigned string: clients drop it.
LiveTokens(S, time) == {t \in S : ~Expired(t, time)}

LiveMail(S, time) == {m \in S : ~Expired(m.token, time)}

send_email_token(task) ==
    IF task.token = NoToken THEN create_email_token(task.to) ELSE task.token

send_email_kind(task) ==
    IF task.token = NoToken THEN "confirm" ELSE "reset"

send_email ==
    /\ bg # << >>
    /\ \E delivered \in BOOLEAN :
        LET task == Head(bg)
            mail == Mail(send_email_token(task), send_email_kind(task))
        IN /\ delivered /\ mail \notin mailbox => Cardinality(mailbox) < MaxMail
           /\ bg' = Tail(bg)
           /\ mailbox' = IF delivered /\ ~Expired(mail.token, now)
                         THEN mailbox \cup {mail} ELSE mailbox
           /\ resp' = Resp("send_email", IF delivered THEN 0 ELSE 1, "",
                           task.to, NoToken, NoToken, NoToken, 0)
    /\ UNCHANGED <<users, now, issued, inflight>>

\* Time passes between requests.
Tick ==
    /\ now < MaxTime
    /\ now' = now + 1
    /\ issued' = LiveTokens(issued, now + 1)
    /\ mailbox' = LiveMail(mailbox, now + 1)
    /\ UNCHANGED <<users, bg, resp, inflight>>

---------------------------------------------------------------------------
(* Auth Flow Controller: the route handlers *)

\* Mutant: signup that refuses only confirmed accounts.
signup_conflict_confirmed_only(email) ==
    UserExists(email) /\ users[email].confirmed

signup_conflict(email) == UserExists(email)

\* bt.add_task(send_email, new_user.email, new_user.username, base_url)
signup_bg(email) == Append(bg, Task(email, NoToken))

\* signup up to the await of create_user: the lookup and the 409.
signup(r, email, password) ==
    IF signup_conflict(email)
    THEN /\ resp' = Resp("signup", 409, "Account already exists", email,
                         NoToken, NoToken, NoToken, 0)
         /\ UNCHANGED <<users, now, issued, mailbox, bg, inflight>>
    ELSE /\ Suspend(r, Request("create_user", email, password,
                               NoToken, NoToken, NoToken, FALSE))
         /\ UNCHANGED <<users, now, issued, mailbox, bg>>

\* signup from create_user on.  The e-mail column is unique: when another
\* signup has inserted the address since the lookup, the insert raises and
\* nothing catches it.
signup_create_user(r) ==
    LET email == inflight[r].email IN
    /\ inflight[r].pc = "create_user"
    /\ IF UserExists(email)
       THEN /\ resp' = Resp("signup", 500, "Internal Server Error", email,
                            NoToken, NoToken, NoToken, 0)
            /\ UNCHANGED <<users, bg>>
       ELSE /\ Len(bg) < MaxPending
            /\ users' = create_user(email, get_password_hash(inflight[r].password))
            /\ bg' = signup_bg(email)
            /\ resp' = Resp("signup", 201, "", email, NoToken, NoToken, NoToken, 1)
    /\ Resume(r)
    /\ UNCHANGED <<now, issued, mailbox>>

\* Mutant: login without the confirmation check.
login_detail_no_confirmed(email, password) ==
    IF ~UserExists(email) THEN "Invalid email"
    ELSE IF ~verify_password(password, users[email].password) THEN "Invalid password"
    ELSE "ok"

\* Mutant: login that lets an unknown email through.
login_detail_any_email(email, password) ==
    IF ~UserExists(email) THEN "ok"
    ELSE IF ~users[email].confirmed THEN "Email not confirmed"
    ELSE IF ~verify_password(password, users[email].password) THEN "Invalid password"
    ELSE "ok"

\* The outcome of login's three checks, in the order the handler makes them.
login_detail(email, password) ==
    IF ~UserExists(email) THEN "Invalid email"
    ELSE IF ~users[email].confirmed THEN "Email not confirmed"
    ELSE IF ~verify_password(password, users[email].password) THEN "Invalid password"
    ELSE "ok"

\* user.refresh_token of what get_user_by_email returned.
LoadedToken(email) ==
    IF UserExists(email) THEN users[email].refresh_token ELSE NoToken

\* await repositories_users.update_token(user, refresh_token, db)
login_users(email, changed, refresh) == update_token(email, changed, refresh)

login_except_generic_first(exc) == 500

\* except HTTPException: raise (the 401 passes through);
\* except Exception: raise HTTPException(500)
login_except(exc) == IF exc = "HTTPException" THEN 401 ELSE 500

login_users_clear_on_failure(email) ==
    IF UserExists(email)
    THEN [users EXCEPT ![email].refresh_token = NoToken]
    ELSE users

\* The 401s are raised (lines 45-56) before update_token (line 62) is reached.
login_users_on_failure(email) == users

\* login up to the await of update_token: the lookup, the three checks and
\* the two new tokens, stamped with the time of their making.
login(r, email, password) ==
    LET detail == login_detail(email, password) IN
    IF detail # "ok"
    THEN /\ resp' = Resp("login", login_except("HTTPException"), detail, email,
                         NoToken, NoToken, NoToken, 0)
         /\ users' = login_users_on_failure(email)
         /\ UNCHANGED <<now, issued, mailbox, bg, inflight>>
    ELSE /\ Suspend(r, Request("update_token", email, "", NoToken,
                               create_access_token(email),
                               create_refresh_token(email),
                               update_token_changed(LoadedToken(email),
                                                    create_refresh_token(email))))
         /\ UNCHANGED <<users, now, issued, mailbox, bg>>

\* login from update_token on: the token is stored and the pair returned.
login_update_token(r) ==
    LET l == inflight[r] IN
    /\ l.pc = "update_token"
    /\ users' = login_users(l.email, l.changed, l.refresh)
    /\ issued' = LiveTokens(issued \cup {l.refresh}, now)
    /\ resp' = Resp("login", 201, "", l.email, NoToken, l.access, l.refresh, 0)
    /\ Resume(r)
    /\ UNCHANGED <<now, mailbox, bg>>

\* The calls of the login path that can raise something other than an
\* HTTPException: account lookup (line 44), password verification (52),
\* token creation (58-61), token persistence (62).
Faults == {"lookup", "verify", "create", "persist"}

\* The failing call is reached: the checks before it passed.
login_fault_reached(email, password, fault) ==
    \/ fault = "lookup"
    \/ fault = "verify" /\ UserExists(email) /\ users[email].confirmed
    \/ fault \in {"create", "persist"} /\ login_detail(email, password) = "ok"

\* login when the call named by fault raises before update_token is awaited.
login_faulty(r, email, password, fault) ==
    IF fault # "persist" /\ login_fault_reached(email, password, fault)
    THEN /\ resp' = Resp("login", login_except("Exception"), "Internal server error",
                         email, NoToken, NoToken, NoToken, 0)
         /\ UNCHANGED <<users, now, issued, mailbox, bg, inflight>>
    ELSE login(r, email, password)

\* login from update_token on when update_token raises: it may or may not
\* have written the token before it raised.
login_update_token_faulty(r) ==
    LET l == inflight[r] IN
    /\ l.pc = "update_token"
    /\ \E written \in BOOLEAN :
           users' = IF written THEN login_users(l.email, l.changed, l.refresh)
                    ELSE users
    /\ resp' = Resp("login", login_except("Exception"), "Internal server error",
                    l.email, NoToken, NoToken, NoToken, 0)
    /\ Resume(r)
    /\ UNCHANGED <<now, issued, mailbox, bg>>

refresh_mismatch(email, token) == users[email].refresh_token # token

\* await repositories_users.update_token(user, None, db)
refresh_users_on_mismatch(email, changed) == update_token(email, changed, NoToken)

\* await repositories_users.update_token(user, refresh_token, db)
refresh_users_on_match(email, token, changed, refresh) ==
    update_token(email, changed, refresh)

\* refresh_token up to the await of the account lookup: the token is decoded.
refresh_token(r, token) ==
    IF ~decode_refresh_token_ok(token)
    THEN /\ resp' = Resp("refresh_token", 401, "Could not validate credentials",
                         "", NoToken, NoToken, NoToken, 0)
         /\ UNCHANGED <<users, now, issued, mailbox, bg, inflight>>
    ELSE /\ Suspend(r, Request("refresh_lookup", token.sub, "", token,
                               NoToken, NoToken, FALSE))
         /\ UNCHANGED <<users, now, issued, mailbox, bg>>

\* refresh_token from the lookup to the await of update_token: comparison
\* with the stored token and, on a match, the two new tokens.
refresh_token_get_user_by_email(r) ==
    LET q == inflight[r] IN
    /\ q.pc = "refresh_lookup"
    /\ IF ~UserExists(q.email)
       THEN \* user is None: user.refresh_token raises, unhandled
            /\ resp' = Resp("refresh_token", 500, "Internal Server Error",
                            q.email, q.token, NoToken, NoToken, 0)
            /\ Resume(r)
       ELSE IF refresh_mismatch(q.email, q.token)
       THEN Move(r, Request("clear_token", q.email, "", q.token,
                            NoToken, NoToken,
                            update_token_changed(LoadedToken(q.email), NoToken)))
       ELSE Move(r, Request("store_token", q.email, "", q.token,
                            create_access_token(q.email),
                            create_refresh_token(q.email),
                            update_token_changed(LoadedToken(q.email),
                                                 create_refresh_token(q.email))))
    /\ UNCHANGED <<users, now, issued, mailbox, bg>>

\* refresh_token from update_token on: line 86 and the 401 after a mismatch,
\* line 93 and the new pair after a match.
refresh_token_update_token(r) ==
    LET q == inflight[r] IN
    /\ q.pc \in {"clear_token", "store_token"}
    /\ IF q.pc = "clear_token"
       THEN /\ users' = refresh_users_on_mismatch(q.email, q.changed)
            /\ resp' = Resp("refresh_token", 401, "Invalid refresh token",
                            q.email, q.token, NoToken, NoToken, 0)
            /\ UNCHANGED issued
       ELSE /\ users' = refresh_users_on_match(q.email, q.token, q.changed, q.refresh)
            /\ issued' = LiveTokens(issued \cup {q.refresh}, now)
            /\ resp' = Resp("refresh_token", 200, "", q.email, q.token,
                            q.access, q.refresh, 0)
    /\ Resume(r)
    /\ UNCHANGED <<now, mailbox, bg>>

\* await repositories_users.confirmed_email(email, db)
confirmed_email_users(email) == repo_confirmed_email(email)

\* Mutant: the same message whether or not the account was confirmed.
confirmed_email_message_always(confirmed) == "Email confirmed"

confirmed_email_message(confirmed) ==
    IF confirmed THEN "Your email is already confirmed" ELSE "Email confirmed"

\* confirmed_email up to the await of the account lookup: the token is
\* decoded.
confirmed_email(r, token) ==
    IF ~get_email_from_token_ok(token)
    THEN /\ resp' = Resp("confirmed_email", 400, "Invalid token", "", NoToken,
                         NoToken, NoToken, 0)
         /\ UNCHANGED <<users, now, issued, mailbox, bg, inflight>>
    ELSE /\ Suspend(r, Request("confirm_lookup", token.sub, "", NoToken,
                               NoToken, NoToken, FALSE))
         /\ UNCHANGED <<users, now, issued, mailbox, bg>>

\* confirmed_email from the lookup to the await of the repository's
\* confirmed_email.
confirmed_email_get_user_by_email(r) ==
    LET q == inflight[r] IN
    /\ q.pc = "confirm_lookup"
    /\ IF ~UserExists(q.email)
       THEN /\ resp' = Resp("confirmed_email", 400, "Verification error",
                            q.email, q.token, NoToken, NoToken, 0)
            /\ Resume(r)
       ELSE IF users[q.email].confirmed
       THEN /\ resp' = Resp("confirmed_email", 200, confirmed_email_message(TRUE),
                            q.email, q.token, NoToken, NoToken, 0)
            /\ Resume(r)
       ELSE Move(r, Request("confirmed_email", q.email, "", NoToken,
                            NoToken, NoToken, FALSE))
    /\ UNCHANGED <<users, now, issued, mailbox, bg>>

\* confirmed_email from the repository's confirmed_email on.
confirmed_email_confirm(r) ==
    LET q == inflight[r] IN
    /\ q.pc = "confirmed_email"
    /\ users' = confirmed_email_users(q.email)
    /\ resp' = Resp("confirmed_email", 200, confirmed_email_message(FALSE),
                    q.email, q.token, NoToken, NoToken, 0)
    /\ Resume(r)
    /\ UNCHANGED <<now, issued, mailbox, bg>>

\* request_email reads user.confirmed before it tests `if user`.
request_email_crashes(email) == ~UserExists(email)

request_email(email) ==
    IF request_email_crashes(email)
    THEN \* user is None: user.confirmed raises, unhandled
         /\ resp' = Resp("request_email", 500, "Internal Server Error", email,
                         NoToken, NoToken, NoToken, 0)
         /\ UNCHANGED <<users, now, issued, mailbox, bg, inflight>>
    ELSE IF users[email].confirmed
    THEN /\ resp' = Resp("request_email", 200, "Your email is already confirmed",
                         email, NoToken, NoToken, NoToken, 0)
         /\ UNCHANGED <<users, now, issued, mailbox, bg, inflight>>
    ELSE /\ Len(bg) < MaxPending
         /\ bg' = Append(bg, Task(email, NoToken))
         /\ resp' = Resp("request_email", 200, "Check your email for confirmation.",
                         email, NoToken, NoToken, NoToken, 1)
         /\ UNCHANGED <<users, now, issued, mailbox, inflight>>

\* Mutant: the reset token made for the display name instead of the e-mail.
password_reset_token_username(email) == create_email_token("username")

password_reset_token(email) == create_email_token(email)

password_reset_request(email) ==
    IF ~UserExists(email)
    THEN /\ resp' = Resp("password_reset_request", 404, "User not found", email,
                         NoToken, NoToken, NoToken, 0)
         /\ UNCHANGED <<users, now, issued, mailbox, bg, inflight>>
    ELSE /\ Len(bg) < MaxPending
         /\ bg' = Append(bg, Task(email, password_reset_token(email)))
         /\ resp' = Resp("password_reset_request", 200, "Password reset email sent",
                         email, NoToken, NoToken, NoToken, 1)
         /\ UNCHANGED <<users, now, issued, mailbox, inflight>>

password_reset_decode_ok(token) == get_email_from_token_ok(token)

\* Mutant: a password reset that answers 200 without writing the new hash.
password_reset_users_noop(email, new_password) == users

\* Mutant: a password reset that also drops the stored refresh token.
password_reset_users_revoke(email, new_password) ==
    [update_password(email, new_password) EXCEPT ![email].refresh_token = NoToken]

\* Mutant: a password reset that also takes the confirmation back.
password_reset_users_unconfirm(email, new_password) ==
    [update_password(email, new_password) EXCEPT ![email].confirmed = FALSE]

password_reset_users(email, new_password) == update_password(email, new_password)

\* What the decoding of the try block raises.
password_reset_decode_exception(token) ==
    IF ~password_reset_decode_ok(token) THEN "InvalidToken" ELSE "none"

\* What the lookup of the try block raises: the handler's own 404.
password_reset_lookup_exception(email) ==
    IF ~UserExists(email) THEN "HTTPException 404" ELSE "none"

\* Mutant: the handler's own 404 is re-raised, as login re-raises its 401s.
password_reset_except_reraise(exc) ==
    IF exc = "HTTPException 404" THEN 404 ELSE 400

\* except Exception: every exception, the 404 included, is answered 400.
password_reset_except(exc) == 400

\* password_reset_confirm up to the await of the account lookup: the token
\* is decoded.
password_reset_confirm(r, token, new_password) ==
    IF password_reset_decode_exception(token) # "none"
    THEN /\ resp' = Resp("password_reset_confirm",
                         password_reset_except(password_reset_decode_exception(token)),
                         "Invalid token or user",
                         "", NoToken, NoToken, NoToken, 0)
         /\ UNCHANGED <<users, now, issued, mailbox, bg, inflight>>
    ELSE /\ Suspend(r, Request("reset_lookup", token.sub, new_password, NoToken,
                               NoToken, NoToken, FALSE))
         /\ UNCHANGED <<users, now, issued, mailbox, bg>>

\* password_reset_confirm from the lookup to the await of update_password.
password_reset_get_user_by_email(r) ==
    LET q == inflight[r] IN
    /\ q.pc = "reset_lookup"
    /\ IF password_reset_lookup_exception(q.email) # "none"
       THEN /\ resp' = Resp("password_reset_confirm",
                            password_reset_except(password_reset_lookup_exception(q.email)),
                            "Invalid token or user",
                            q.email, NoToken, NoToken, NoToken, 0)
            /\ Resume(r)
       ELSE Move(r, Request("update_password", q.email, q.password, NoToken,
                            NoToken, NoToken, FALSE))
    /\ UNCHANGED <<users, now, issued, mailbox, bg>>

\* password_reset_confirm from update_password on.
password_reset_update_password(r) ==
    LET q == inflight[r] IN
    /\ q.pc = "update_password"
    /\ users' = password_reset_users(q.email, q.password)
    /\ resp' = Resp("password_reset_confirm", 200,
                    "Password has been reset successfully", q.email, q.token,
                    NoToken, NoToken, 0)
    /\ Resume(r)
    /\ UNCHANGED <<now, issued, mailbox, bg>>

\* password_reset_confirm from update_password on when update_password
\* raises inside the try block: it may or may not have written the hash
\* before it raised.
password_reset_update_password_faulty(r) ==
    LET q == inflight[r] IN
    /\ q.pc = "update_password"
    /\ \E written \in BOOLEAN :
           users' = IF written THEN password_reset_users(q.email, q.password)
                    ELSE users
    /\ resp' = Resp("password_reset_confirm", password_reset_except("Exception"),
                    "Invalid token or user", q.email, q.token,
                    NoToken, NoToken, 0)
    /\ Resume(r)
    /\ UNCHANGED <<now, issued, mailbox, bg>>

---------------------------------------------------------------------------
(* Requests a client can make: any e-mail, any password, and as a token     *)
(* anything it was given or a string of its own making.                     *)

Presentable == Signed \cup {BadToken}

Signup ==
    \E email \in SignupEmails, password \in Passwords :
        signup(NextSlot, email, password)

SignupCreateUser == \E r \in Requests : signup_create_user(r)

Login == \E email \in Emails, password \in Passwords : login(NextSlot, email, password)

LoginUpdateToken == \E r \in Requests : login_update_token(r)

RefreshToken == \E token \in Presentable : refresh_token(NextSlot, token)

RefreshTokenGetUserByEmail == \E r \in Requests : refresh_token_get_user_by_email(r)

RefreshTokenUpdateToken == \E r \in Requests : refresh_token_update_token(r)

ConfirmEmail == \E token \in Presentable : confirmed_email(NextSlot, token)

ConfirmEmailGetUserByEmail == \E r \in Requests : confirmed_email_get_user_by_email(r)

ConfirmEmailConfirm == \E r \in Requests : confirmed_email_confirm(r)

RequestEmail == \E email \in Emails : request_email(email)

PasswordResetRequest == \E email \in Emails : password_reset_request(email)

PasswordResetConfirm ==
    \E token \in Presentable, new_password \in Passwords :
        password_reset_confirm(NextSlot, token, new_password)

PasswordResetGetUserByEmail == \E r \in Requests : password_reset_get_user_by_email(r)

PasswordResetUpdatePassword == \E r \in Requests : password_reset_update_password(r)

\* The response of the step before has left.
Ready == resp = NoResponse

\* The response is sent.  No handler reads resp: this orders the record of
\* what was answered, not the requests.
Respond ==
    /\ resp # NoResponse
    /\ resp' = NoResponse
    /\ UNCHANGED <<users, now, issued, mailbox, bg, inflight>>

Next ==
    \/ Ready /\ Signup /\ UNCHANGED <<cvars, hvars, dvars>>
    \/ Ready /\ SignupCreateUser /\ UNCHANGED <<cvars, hvars, dvars>>
    \/ Ready /\ Login /\ UNCHANGED <<cvars, hvars, dvars>>
    \/ Ready /\ LoginUpdateToken /\ UNCHANGED <<cvars, hvars, dvars>>
    \/ Ready /\ RefreshToken /\ UNCHANGED <<cvars, hvars, dvars>>
    \/ Ready /\ RefreshTokenGetUserByEmail /\ UNCHANGED <<cvars, hvars, dvars>>
    \/ Ready /\ RefreshTokenUpdateToken /\ UNCHANGED <<cvars, hvars, dvars>>
    \/ Ready /\ ConfirmEmail /\ UNCHANGED <<cvars, hvars, dvars>>
    \/ Ready /\ ConfirmEmailGetUserByEmail /\ UNCHANGED <<cvars, hvars, dvars>>
    \/ Ready /\ ConfirmEmailConfirm /\ UNCHANGED <<cvars, hvars, dvars>>
    \/ Ready /\ RequestEmail /\ UNCHANGED <<cvars, hvars, dvars>>
    \/ Ready /\ PasswordResetRequest /\ UNCHANGED <<cvars, hvars, dvars>>
    \/ Ready /\ PasswordResetConfirm /\ UNCHANGED <<cvars, hvars, dvars>>
    \/ Ready /\ PasswordResetGetUserByEmail /\ UNCHANGED <<cvars, hvars, dvars>>
    \/ Ready /\ PasswordResetUpdatePassword /\ UNCHANGED <<cvars, hvars, dvars>>
    \/ Ready /\ send_email /\ UNCHANGED <<cvars, hvars, dvars>>
    \/ Ready /\ Tick /\ UNCHANGED <<cvars, hvars, dvars>>
    \/ Respond /\ UNCHANGED <<cvars, hvars, dvars>>

Spec == Init /\ [][Next]_allvars

---------------------------------------------------------------------------
(* Properties *)

\* Every token a client holds, and a string of its own making.
AnyToken == Presentable

Stored(email) == users[email].refresh_token

NoTokensIssued == resp'.access_token = NoToken /\ resp'.refresh_token = NoToken

\* The step is a request's first; the handler suspends at the await named pc.
SuspendsAt(pc) == inflight[NextSlot] = Idle /\ inflight'[NextSlot].pc = pc

\* The request in slot r answers nothing yet and stands at the await named
\* pc next.
MovesTo(r, pc) == resp' = NoResponse /\ inflight'[r].pc = pc

\* A refresh request would find the token to be the stored one of an account.
Accepted(t) ==
    /\ decode_refresh_token_ok(t)
    /\ UserExists(t.sub)
    /\ ~refresh_mismatch(t.sub, t)

\* The request in slot r resumes at its await and rejects the token it read
\* as a mismatch.
RefreshRejects(r) ==
    refresh_token_update_token(r) /\ inflight[r].pc = "clear_token"

\* The request in slot r resumes at its await and stores the pair it made.
RefreshStores(r) ==
    refresh_token_update_token(r) /\ inflight[r].pc = "store_token"

\* A request that went on to clear the stored token answers 401 and clears.
RejectionClears(r) ==
    RefreshRejects(r) =>
        /\ resp'.status = 401
        /\ NoTokensIssued
        /\ users'[inflight[r].email].refresh_token = NoToken

C1_Exchanged(r) ==
    RefreshStores(r) =>
        /\ resp'.status = 200
        /\ resp'.refresh_token # inflight[r].token
        /\ users'[inflight[r].email].refresh_token = resp'.refresh_token
        /\ \A t \in {inflight[r].token} : ~Accepted(t)'

C1_Reused(r) ==
    /\ refresh_token_get_user_by_email(r)
    /\ UserExists(inflight[r].email)
    /\ Stored(inflight[r].email) # inflight[r].token
    =>  MovesTo(r, "clear_token")

\* C1 as stated: a refresh that succeeds with token t0 returns a refresh
\* token other than t0 and stores it, so that t0 is not accepted afterwards;
\* a request whose token is not the stored one goes on to reject it, and the
\* rejection answers 401 and leaves the stored refresh token null.
C1_Original ==
    [][\A r \in Requests :
          /\ C1_Exchanged(r)
          /\ C1_Reused(r)
          /\ RejectionClears(r)]_vars

C2_Lookup(r) ==
    /\ refresh_token_get_user_by_email(r)
    /\ UserExists(inflight[r].email)
    /\ Stored(inflight[r].email) # inflight[r].token
    =>  /\ MovesTo(r, "clear_token")
        /\ inflight'[r].email = inflight[r].email
        /\ issued' = issued
        /\ users' = users

C2_Rejection(r) ==
    RefreshRejects(r) =>
        LET e == inflight[r].email IN
        /\ resp'.status = 401
        /\ NoTokensIssued
        /\ issued' = issued
        /\ users' = [users EXCEPT ![e].refresh_token = NoToken]

C3_Unconfirmed(e, p) ==
    login(NextSlot, e, p) /\ UserExists(e) /\ ~users[e].confirmed =>
        /\ resp'.status = 401
        /\ NoTokensIssued
        /\ users' = users
        /\ issued' = issued
        /\ inflight' = inflight

\* C3: login before confirmation is always 401 and issues nothing.
C3_LoginBeforeConfirmation ==
    [][\A e \in Emails, p \in Passwords : C3_Unconfirmed(e, p)]_vars

C3_Witness ==
    /\ resp.op = "login"
    /\ resp.status = 401
    /\ UserExists(resp.email)
    /\ ~users[resp.email].confirmed
    /\ Stored(resp.email) = NoToken

C4_AtMostOneAccepted ==
    \A e \in DOMAIN users :
        Cardinality({t \in Presentable : t.sub = e /\ Accepted(t)}) <= 1

C4_AcceptsStoredOnly(r) ==
    refresh_token_get_user_by_email(r) /\ MovesTo(r, "store_token") =>
        Stored(inflight[r].email) = inflight[r].token

C4_ReturnsWhatItStores ==
    resp'.op \in {"login", "refresh_token"} /\ resp'.status \in {200, 201} =>
        /\ resp'.refresh_token # NoToken
        /\ users'[resp'.email].refresh_token = resp'.refresh_token
        /\ \A t \in AnyToken :
               t.sub = resp'.email => ~Accepted(t)'
        /\ \A t \in issued' :
               t.sub = resp'.email /\ t # resp'.refresh_token => ~Accepted(t)'

\* C4 as stated: for each account at most one refresh token is accepted, the
\* stored one; a successful login or refresh returns exactly the token it
\* stores, and no refresh token handed out before it is accepted once it has
\* answered.
C4_Original ==
    /\ []C4_AtMostOneAccepted
    /\ [][/\ \A r \in Requests : C4_AcceptsStoredOnly(r)
          /\ C4_ReturnsWhatItStores]_vars

\* C5: signup with an e-mail that already has an account is answered 409,
\* leaves the account store as it was and queues no mail.
C5_Duplicate(e, p) ==
    signup(NextSlot, e, p) /\ UserExists(e) =>
        /\ resp'.status = 409
        /\ resp'.enq = 0
        /\ users' = users
        /\ bg' = bg
        /\ inflight' = inflight

\* C5: a duplicate signup is 409 and changes nothing.
C5_SignupConflict ==
    [][\A e \in Emails, p \in Passwords : C5_Duplicate(e, p)]_vars

C5_Witness ==
    /\ resp.op = "signup"
    /\ resp.status = 409
    /\ UserExists(resp.email)

\* C6 as stated: password_reset_confirm accepts only tokens a password-reset
\* request made, and confirmed_email accepts only tokens of confirmation
\* mails: a token of the other kind is refused where the token is decoded.
C6_Original ==
    [][/\ \A t \in AnyToken, p \in Passwords :
            /\ password_reset_confirm(NextSlot, t, p)
            /\ SuspendsAt("reset_lookup")
            => Mail(t, "reset") \in mailbox
       /\ \A t \in AnyToken :
            /\ confirmed_email(NextSlot, t)
            /\ SuspendsAt("confirm_lookup")
            => Mail(t, "confirm") \in mailbox]_vars

\* C7: an account that is confirmed stays confirmed.
C7_StaysConfirmed(e) ==
    users[e].confirmed => e \in DOMAIN users' /\ users'[e].confirmed

\* C7: no step takes a confirmed account back to unconfirmed.
C7_ConfirmationOneWay == [][\A e \in DOMAIN users : C7_StaysConfirmed(e)]_vars

\* A confirmed account went through a password reset and is still confirmed.
C7_Witness ==
    /\ resp.op = "password_reset_confirm"
    /\ resp.status = 200
    /\ users[resp.email].confirmed

\* C8: confirmed_email with a valid token answers "already confirmed" and
\* changes nothing when its lookup finds the account confirmed; when the
\* lookup finds it unconfirmed the handler goes on to set the flag and
\* answers "Email confirmed".
C8_Decoded(t) ==
    confirmed_email(NextSlot, t) /\ get_email_from_token_ok(t) =>
        /\ users' = users
        /\ SuspendsAt("confirm_lookup")
        /\ inflight'[NextSlot].email = t.sub

C8_Confirm(r) ==
    confirmed_email_get_user_by_email(r) /\ UserExists(inflight[r].email) =>
        /\ users' = users
        /\ IF users[inflight[r].email].confirmed
           THEN /\ resp'.status = 200
                /\ resp'.detail = "Your email is already confirmed"
                /\ resp'.email = inflight[r].email
           ELSE /\ MovesTo(r, "confirmed_email")
                /\ inflight'[r].email = inflight[r].email

C8_Confirmed(r) ==
    confirmed_email_confirm(r) =>
        /\ resp'.status = 200
        /\ resp'.detail = "Email confirmed"
        /\ users' = [users EXCEPT ![inflight[r].email].confirmed = TRUE]

\* C8: confirming twice is harmless and says so.
C8_ConfirmationIdempotent ==
    [][/\ \A t \in AnyToken : C8_Decoded(t)
       /\ \A r \in Requests : C8_Confirm(r) /\ C8_Confirmed(r)]_vars

C8_Witness ==
    /\ resp.op = "confirmed_email"
    /\ resp.status = 200
    /\ resp.detail = "Your email is already confirmed"
    /\ users[resp.email].confirmed

\* C9 as stated: request_email for an e-mail without an account completes
\* with a normal response and queues no mail.
C9_Original ==
    [][\A e \in Emails :
          request_email(e) /\ ~UserExists(e) =>
              resp'.status = 200 /\ resp'.enq = 0 /\ bg' = bg]_vars

\* C10: only confirmed_email changes a confirmation flag, only login and
\* refresh_token change a stored refresh token, login and refresh_token
\* leave the flag and the password hash alone, and signup, request_email,
\* password_reset_request and password_reset_confirm leave an existing
\* account's flag and stored token alone (the first three, the whole account).
C10_Frame(e) ==
    /\ e \in DOMAIN users'
    /\ users'[e].confirmed # users[e].confirmed => resp'.op = "confirmed_email"
    /\ users'[e].refresh_token # users[e].refresh_token =>
           resp'.op \in {"login", "refresh_token"}
    /\ resp'.op \in {"login", "refresh_token"} =>
           users'[e].password = users[e].password
    /\ resp'.op \in {"signup", "request_email", "password_reset_request"} =>
           users'[e] = users[e]
    /\ resp'.op = "none" => users'[e] = users[e]

\* C10: each account field is written by its own handlers only.
C10_FieldWriters == [][\A e \in DOMAIN users : C10_Frame(e)]_vars

\* A password reset ran on a confirmed account that holds a refresh token.
C10_Witness ==
    /\ resp.op = "password_reset_confirm"
    /\ resp.status = 200
    /\ Stored(resp.email) # NoToken
    /\ users[resp.email].password = get_password_hash("pw2")

\* The request in slot r resumes at update_password, while the reset mail
\* of its account is in the mailbox.
C11_ResetWrites(r) ==
    /\ password_reset_update_password(r)
    /\ \E m \in mailbox : m.kind = "reset" /\ m.token.sub = inflight[r].email

\* C11 as stated: after a successful reset, login succeeds with the new
\* password and fails with any other, the stored refresh token is left as it
\* was and a refresh token accepted before the reset is accepted after it.
C11_Original ==
    [][\A r \in Requests :
          C11_ResetWrites(r) =>
              \A e \in {inflight[r].email}, p \in {inflight[r].password} :
                  /\ \A q \in Passwords : (login_detail(e, q)' = "ok") <=> (q = p)
                  /\ users'[e].refresh_token = Stored(e)
                  /\ \A t \in {Stored(e)} : Accepted(t) => Accepted(t)']_vars

\* C11 amended: the reset overwrites the password hash so that the password
\* check passes with the new password only; login then succeeds with it when
\* the account is confirmed and is still refused "Email not confirmed" when
\* it is not; the stored refresh token and the confirmation flag are left as
\* they were and an accepted refresh token stays accepted.
C11_Reset(r) ==
    password_reset_update_password(r) =>
        \A e \in {inflight[r].email}, p \in {inflight[r].password} :
            /\ resp'.status = 200
            /\ \A q \in Passwords :
                  verify_password(q, users'[e].password) <=> (q = p)
            /\ \A q \in Passwords :
                  login_detail(e, q)' =
                      IF ~users[e].confirmed THEN "Email not confirmed"
                      ELSE IF q = p THEN "ok" ELSE "Invalid password"
            /\ users'[e].refresh_token = Stored(e)
            /\ users'[e].confirmed = users[e].confirmed
            /\ \A t \in {Stored(e)} : Accepted(t) => Accepted(t)'

\* C11 (amended): a password reset replaces the password and nothing else.
C11_ResetKeepsSession == [][\A r \in Requests : C11_Reset(r)]_vars

\* A reset changed the password of an account whose refresh token is accepted.
C11_Witness ==
    /\ resp.op = "password_reset_confirm"
    /\ resp.status = 200
    /\ users[resp.email].confirmed
    /\ Accepted(Stored(resp.email))
    /\ login_detail(resp.email, "pw1") = "Invalid password"

\* No account's password hash is changed by the step.
C12_HashesKept ==
    /\ DOMAIN users' = DOMAIN users
    /\ \A e \in DOMAIN users : users'[e].password = users[e].password

\* The steps of a password_reset_confirm that fails: at the decoding of its
\* token, at the lookup of its subject, and at an update_password that raises.
C12_Failure(t, p) ==
    password_reset_confirm(NextSlot, t, p) =>
        /\ C12_HashesKept
        /\ IF ~password_reset_decode_ok(t)
           THEN resp'.status = 400 /\ inflight' = inflight
           ELSE SuspendsAt("reset_lookup")

C12_NoAccount(r) ==
    password_reset_get_user_by_email(r) =>
        /\ C12_HashesKept
        /\ IF ~UserExists(inflight[r].email)
           THEN /\ resp'.op = "password_reset_confirm"
                /\ resp'.status = 400
                /\ resp'.detail = "Invalid token or user"
           ELSE MovesTo(r, "update_password")

C12_Raised(r) ==
    password_reset_update_password_faulty(r) =>
        /\ resp'.status = 400
        /\ resp'.detail = "Invalid token or user"
        /\ C12_HashesKept

C12_Answers ==
    resp'.op = "password_reset_confirm" =>
        /\ resp'.status \in {200, 400}
        /\ resp'.status # 200 => C12_HashesKept

C13_Request(e) ==
    password_reset_request(e) =>
        /\ users' = users
        /\ IF ~UserExists(e)
           THEN /\ resp'.status = 404
                /\ resp'.enq = 0
                /\ bg' = bg
           ELSE /\ resp'.status = 200
                /\ resp'.enq = 1
                /\ Len(bg') = Len(bg) + 1
                /\ SubSeq(bg', 1, Len(bg)) = bg
                /\ bg'[Len(bg')].to = e
                /\ bg'[Len(bg')].token.sub = e
                /\ bg'[Len(bg')].token.scope = "email_token"

C13_ResetRequest == [][\A e \in Emails : C13_Request(e)]_vars

\* A reset mail for the account is queued.
C13_Witness ==
    /\ resp.op = "password_reset_request"
    /\ resp.status = 200
    /\ bg # << >>
    /\ bg[Len(bg)].token.sub = resp.email


\* ---------------------------------------------------------------------
\* Contact repository (src/src/repository/contacts.py)
\* ---------------------------------------------------------------------

\* Rows ever inserted.
MaxContacts == 2

\* The users that call the repository.
Owners == {"u1", "u2"}

\* Text is a sequence of lower-case letters.
Names == {<<"a">>, <<"a", "b">>}

Patterns == {<<>>, <<"a">>, <<"b">>}

\* The calendar year the calls are made in (a leap year).
ThisYear == 2024

BirthYear == 1990

UPCOMING_DAYS == 7

IsLeap(y) == (y % 4 = 0 /\ y % 100 # 0) \/ y % 400 = 0

DaysInMonth(y, m) ==
    IF m = 2 THEN (IF IsLeap(y) THEN 29 ELSE 28)
    ELSE IF m \in {4, 6, 9, 11} THEN 30 ELSE 31

Date(y, m, d) == [y |-> y, m |-> m, d |-> d]

DatesOf(y) == UNION {{Date(y, m, d) : d \in 1..DaysInMonth(y, m)} : m \in 1..12}

\* The values date.today() takes: the days around the turn of the year, and
\* the days whose window ends at the end of February.
Todays ==
    {dt \in DatesOf(ThisYear) :
        \/ dt.m = 12 /\ dt.d >= 23
        \/ dt.m = 1 /\ dt.d <= 2
        \/ dt.m = 2 /\ dt.d \in {22, 23}}

Birthdays == {Date(BirthYear, 12, 30), Date(BirthYear, 1, 2)}

NextDay(dt) ==
    IF dt.d < DaysInMonth(dt.y, dt.m) THEN Date(dt.y, dt.m, dt.d + 1)
    ELSE IF dt.m < 12 THEN Date(dt.y, dt.m + 1, 1)
    ELSE Date(dt.y + 1, 1, 1)

RECURSIVE timedelta_add(_, _)
\* date + timedelta(days=n)
timedelta_add(dt, n) == IF n = 0 THEN dt ELSE timedelta_add(NextDay(dt), n - 1)

\* to_char(date, 'MM-DD'): the two digits of the month and the two digits of
\* the day, in that order (the '-' stands at the same place in every such
\* text and never decides a comparison).
to_char_MM_DD(dt) == <<dt.m \div 10, dt.m % 10, dt.d \div 10, dt.d % 10>>

RECURSIVE TextLeq(_, _)
\* a <= b for two texts of equal length, character by character
TextLeq(a, b) ==
    IF a = <<>> THEN TRUE
    ELSE IF Head(a) # Head(b) THEN Head(a) < Head(b)
    ELSE TextLeq(Tail(a), Tail(b))

\* text ILIKE '%pattern%'
ilike_contains(text, pattern) ==
    \E i \in 0..(Len(text) - Len(pattern)) :
        SubSeq(text, i + 1, i + Len(pattern)) = pattern

RowOf(table, id) == [id |-> id, user |-> table[id].user,
                     first_name |-> table[id].first_name,
                     birthday |-> table[id].birthday]

Row(id) == RowOf(contacts, id)

\* The slot a call that suspends is kept in.
NextCall == IF calls["c1"] = NoCall THEN "c1" ELSE "c2"

SuspendCall(c, call) ==
    /\ calls[c] = NoCall
    /\ calls' = [calls EXCEPT ![c] = call]
    /\ ret' = NoReturn

MoveCall(c, call) ==
    /\ calls' = [calls EXCEPT ![c] = call]
    /\ ret' = NoReturn

ResumeCall(c) ==
    calls' = IF c = "c1" THEN [c1 |-> calls["c2"], c2 |-> NoCall]
             ELSE [calls EXCEPT ![c] = NoCall]

\* The first_name argument of get_contacts: not given (None) or a text.
NameFilters == {[given |-> FALSE, text |-> <<>>]} \cup
               {[given |-> TRUE, text |-> t] : t \in Patterns}

Min(a, b) == IF a < b THEN a ELSE b

Max(a, b) == IF a > b THEN a ELSE b

\* The WHERE clause of get_contacts (last_name and email are passed as None).
get_contacts_where(id, first_name, user) ==
    /\ contacts[id].user = user
    /\ ~(first_name.given /\ first_name.text # <<>>)
        \/ ilike_contains(contacts[id].first_name, first_name.text)

\* No ORDER BY: OFFSET/LIMIT keep any min(limit, n - offset) matching rows.
get_contacts(limit, offset, first_name, user) ==
    LET matching == {id \in DOMAIN contacts : get_contacts_where(id, first_name, user)}
        n == Min(limit, Max(0, Cardinality(matching) - offset))
    IN  \E page \in SUBSET matching :
            /\ Cardinality(page) = n
            /\ ret' = Ret("get_contacts", user, 0, NoContact,
                          {Row(id) : id \in page}, "")
            /\ UNCHANGED <<contacts, next_id, calls>>

\* select(Contact).filter_by(id=contact_id, user=user)
get_contact_stmt(contact_id, user) ==
    {id \in DOMAIN contacts : id = contact_id /\ contacts[id].user = user}

get_contact(contact_id, user) ==
    LET found == get_contact_stmt(contact_id, user)
    IN  /\ ret' = Ret("get_contact", user, contact_id,
                      IF found = {} THEN NoContact ELSE Row(contact_id), {}, "")
        /\ UNCHANGED <<contacts, next_id, calls>>

\* db.refresh(contact): the row is read again by its primary key; a row that
\* is no longer there makes refresh raise.
db_refresh(op, call) ==
    IF call.id \in DOMAIN contacts
    THEN Ret(op, call.user, call.id, Row(call.id), {}, "")
    ELSE Ret(op, call.user, call.id, NoContact, {}, "InvalidRequestError")

\* Contact(**body, user=user)
create_contact_owner(user) == user

\* create_contact up to the await of refresh: the row is inserted and
\* committed, and from here on other calls see it.
create_contact(c, body, user) ==
    /\ next_id <= MaxContacts
    /\ contacts' = [id \in DOMAIN contacts \cup {next_id} |->
                       IF id = next_id
                       THEN [user |-> create_contact_owner(user),
                             first_name |-> body.first_name,
                             birthday |-> body.birthday]
                       ELSE contacts[id]]
    /\ next_id' = next_id + 1
    /\ SuspendCall(c, Call("create_refresh", user, next_id, <<>>, NoContact))

\* create_contact from refresh on: the row as it is now is returned.
create_contact_refresh(c) ==
    /\ calls[c].pc = "create_refresh"
    /\ ret' = db_refresh("create_contact", calls[c])
    /\ ResumeCall(c)
    /\ UNCHANGED <<contacts, next_id>>

update_contact_stmt(contact_id, user) ==
    {id \in DOMAIN contacts : id = contact_id /\ contacts[id].user = user}

\* The attributes the setattr loop leaves changed on the loaded row: the
\* body's set fields (exclude_unset) whose value is not the loaded one.
update_contact_changes(contact_id, body) ==
    [k \in {j \in DOMAIN body : body[j] # contacts[contact_id][j]} |-> body[k]]

\* update_contact up to the await of commit.  body is the set fields only:
\* a record over some of the keys.
update_contact(c, contact_id, body, user) ==
    LET found == update_contact_stmt(contact_id, user) IN
    IF found = {}
    THEN /\ ret' = Ret("update_contact", user, contact_id, NoContact, {}, "")
         /\ UNCHANGED <<contacts, next_id, calls>>
    ELSE /\ SuspendCall(c, Call("update_commit", user, contact_id,
                                update_contact_changes(contact_id, body), NoContact))
         /\ UNCHANGED <<contacts, next_id>>

\* update_contact from commit to the await of refresh.  The flush writes the
\* changed attributes with UPDATE ... WHERE id = :id and raises when the row
\* is gone; with nothing changed it writes nothing.
update_contact_commit(c) ==
    LET call == calls[c] IN
    /\ call.pc = "update_commit"
    /\ IF DOMAIN call.changes = {}
       THEN /\ MoveCall(c, [call EXCEPT !.pc = "update_refresh"])
            /\ UNCHANGED contacts
       ELSE IF call.id \notin DOMAIN contacts
       THEN /\ ret' = Ret("update_contact", call.user, call.id, NoContact, {},
                          "StaleDataError")
            /\ ResumeCall(c)
            /\ UNCHANGED contacts
       ELSE /\ contacts' = [contacts EXCEPT ![call.id] =
                   [k \in DOMAIN contacts[call.id] |->
                       IF k \in DOMAIN call.changes THEN call.changes[k]
                       ELSE contacts[call.id][k]]]
            /\ MoveCall(c, [call EXCEPT !.pc = "update_refresh", !.changes = <<>>])
    /\ UNCHANGED next_id

\* update_contact from refresh on.
update_contact_refresh(c) ==
    /\ calls[c].pc = "update_refresh"
    /\ ret' = db_refresh("update_contact", calls[c])
    /\ ResumeCall(c)
    /\ UNCHANGED <<contacts, next_id>>

delete_contact_stmt_any_user(contact_id, user) ==
    {id \in DOMAIN contacts : id = contact_id}

delete_contact_stmt(contact_id, user) ==
    {id \in DOMAIN contacts : id = contact_id /\ contacts[id].user = user}

\* delete_contact up to the awaits of delete and commit.
delete_contact(c, contact_id, user) ==
    LET found == delete_contact_stmt(contact_id, user) IN
    IF found = {}
    THEN /\ ret' = Ret("delete_contact", user, contact_id, NoContact, {}, "")
         /\ UNCHANGED <<contacts, next_id, calls>>
    ELSE /\ SuspendCall(c, Call("delete_commit", user, contact_id, <<>>,
                                Row(contact_id)))
         /\ UNCHANGED <<contacts, next_id>>

\* delete_contact from db.delete on: DELETE ... WHERE id = :id, which is no
\* error when the row is already gone; the row as it was loaded is returned.
delete_contact_commit(c) ==
    LET call == calls[c] IN
    /\ call.pc = "delete_commit"
    /\ contacts' = [id \in DOMAIN contacts \ {call.id} |-> contacts[id]]
    /\ ret' = Ret("delete_contact", call.user, call.id, call.loaded, {}, "")
    /\ ResumeCall(c)
    /\ UNCHANGED next_id

\* The WHERE clause of get_upcoming_birthdays.
upcoming_where(id, user, today) ==
    LET end_date == timedelta_add(today, UPCOMING_DAYS)
    IN  /\ TextLeq(to_char_MM_DD(today), to_char_MM_DD(contacts[id].birthday))
        /\ TextLeq(to_char_MM_DD(contacts[id].birthday), to_char_MM_DD(end_date))
        /\ contacts[id].user = user

\* today is what date.today() returns when the call is made.
get_upcoming_birthdays(user, today) ==
    /\ ret' = Ret("get_upcoming_birthdays", user, 0, NoContact,
                  {Row(id) : id \in {i \in DOMAIN contacts : upcoming_where(i, user, today)}},
                  "")
    /\ UNCHANGED <<contacts, next_id, calls>>

CreateBodies == [first_name : Names, birthday : Birthdays]

UpdateBodies ==
    {[k \in {} |-> 0]}
        \cup {[first_name |-> n] : n \in Names}
        \cup {[birthday |-> b] : b \in Birthdays}
        \cup [first_name : Names, birthday : Birthdays]

ContactIds == 1..MaxContacts

GetContacts ==
    \E limit \in 1..MaxContacts, offset \in 0..1, f \in NameFilters, u \in Owners :
        get_contacts(limit, offset, f, u)

GetContact == \E i \in ContactIds, u \in Owners : get_contact(i, u)

CreateContact == \E b \in CreateBodies, u \in Owners : create_contact(NextCall, b, u)

CreateContactRefresh == \E c \in Calls : create_contact_refresh(c)

UpdateContact ==
    \E i \in ContactIds, b \in UpdateBodies, u \in Owners :
        update_contact(NextCall, i, b, u)

UpdateContactCommit == \E c \in Calls : update_contact_commit(c)

UpdateContactRefresh == \E c \in Calls : update_contact_refresh(c)

DeleteContact == \E i \in ContactIds, u \in Owners : delete_contact(NextCall, i, u)

DeleteContactCommit == \E c \in Calls : delete_contact_commit(c)

GetUpcomingBirthdays == \E u \in Owners, today \in Todays : get_upcoming_birthdays(u, today)

\* The result of the step just taken has been handed to the caller.
Returned == ret = NoReturn

\* The result is handed to the caller.  No call reads ret: this orders the
\* record of what was returned, not the calls.
Return ==
    /\ ret # NoReturn
    /\ ret' = NoReturn
    /\ UNCHANGED <<contacts, next_id, calls>>

ContactsNext ==
    \/ Returned /\ GetContacts /\ UNCHANGED <<vars, hvars, dvars>>
    \/ Returned /\ GetContact /\ UNCHANGED <<vars, hvars, dvars>>
    \/ Returned /\ CreateContact /\ UNCHANGED <<vars, hvars, dvars>>
    \/ Returned /\ CreateContactRefresh /\ UNCHANGED <<vars, hvars, dvars>>
    \/ Returned /\ UpdateContact /\ UNCHANGED <<vars, hvars, dvars>>
    \/ Returned /\ UpdateContactCommit /\ UNCHANGED <<vars, hvars, dvars>>
    \/ Returned /\ UpdateContactRefresh /\ UNCHANGED <<vars, hvars, dvars>>
    \/ Returned /\ DeleteContact /\ UNCHANGED <<vars, hvars, dvars>>
    \/ Returned /\ DeleteContactCommit /\ UNCHANGED <<vars, hvars, dvars>>
    \/ Returned /\ GetUpcomingBirthdays /\ UNCHANGED <<vars, hvars, dvars>>
    \/ Return /\ UNCHANGED <<vars, hvars, dvars>>

SpecContacts == Init /\ [][ContactsNext]_allvars

\* C14: contacts are scoped by their owner.  A get, update or delete by a
\* user with the id of another user's contact returns no contact, leaves the
\* table as it was and holds no row to write later; the list and
\* upcoming-birthday queries return only the caller's own rows; a created
\* contact belongs to the caller.
C14_Foreign(i, u) == i \in DOMAIN contacts /\ contacts[i].user # u

C14_ById(i, u) ==
    /\ ret'.op \in {"get_contact", "update_contact", "delete_contact"}
    /\ ret'.id = i
    /\ ret'.user = u
    /\ C14_Foreign(i, u)
    =>  /\ ret'.row = NoContact
        /\ ret'.raised = ""
        /\ contacts' = contacts
        /\ calls' = calls

C14_Held(c) ==
    calls'[c] # NoCall /\ calls'[c].id \in DOMAIN contacts' =>
        contacts'[calls'[c].id].user = calls'[c].user

C14_Lists(u) ==
    /\ ret'.op \in {"get_contacts", "get_upcoming_birthdays"}
    /\ ret'.user = u
    =>  \A r \in ret'.rows : r.id \in DOMAIN contacts /\ contacts[r.id].user = u

C14_Create(u) ==
    /\ next_id' # next_id
    /\ calls'[NextCall].user = u
    =>  /\ calls'[NextCall].pc = "create_refresh"
        /\ calls'[NextCall].id = next_id
        /\ DOMAIN contacts' = DOMAIN contacts \cup {next_id}
        /\ contacts'[next_id].user = u
        /\ \A i \in DOMAIN contacts : contacts'[i] = contacts[i]

C14_Created ==
    ret'.op = "create_contact" /\ ret'.raised = "" => ret'.row.user = ret'.user

C14_Ownership ==
    [][/\ \A u \in Owners :
             /\ \A i \in ContactIds : C14_ById(i, u)
             /\ C14_Lists(u)
             /\ C14_Create(u)
       /\ \A c \in Calls : C14_Held(c)
       /\ C14_Created]_cvars

\* C14 witness: a delete by a user who does not own the contact found
\* nothing, and the contact is still there.
C14_Witness ==
    /\ ret.op = "delete_contact"
    /\ ret.row = NoContact
    /\ ret.id \in DOMAIN contacts
    /\ contacts[ret.id].user # ret.user

\* C15: the upcoming-birthdays query returns exactly the caller's contacts
\* whose birthday's month and day is the month and day of one of the days
\* today, today+1, ..., today+7, whatever today is.
C15_Window(today) ==
    {<<dt.m, dt.d>> : dt \in {timedelta_add(today, k) : k \in 0..UPCOMING_DAYS}}

C15_Expected(u, today) ==
    {Row(i) : i \in {j \in DOMAIN contacts :
        /\ contacts[j].user = u
        /\ <<contacts[j].birthday.m, contacts[j].birthday.d>> \in C15_Window(today)}}

\* C15 as stated: get_upcoming_birthdays returns the caller's contacts whose
\* birthday falls on one of the days from today to today + 7.
C15_Original ==
    [][\A u \in Owners, today \in Todays :
          get_upcoming_birthdays(u, today) => ret'.rows = C15_Expected(u, today)]_allvars


\* C16 as stated: a signup whose lookup finds no account for the e-mail goes
\* on to store the account (unconfirmed, no refresh token) and to queue
\* exactly one confirmation notification for it, answering 201 with the
\* account; every queued notification is for a stored account; running a
\* queued notification, delivered or failed, writes no account.
C16_Signup(e, p) ==
    signup(NextSlot, e, p) /\ ~UserExists(e)
    =>  /\ SuspendsAt("create_user")
        /\ inflight'[NextSlot] = Request("create_user", e, p, NoToken, NoToken, NoToken, FALSE)
        /\ users' = users
        /\ bg' = bg

C16_Created(r) ==
    signup_create_user(r)
    =>  LET e == inflight[r].email IN
        /\ DOMAIN users' = DOMAIN users \cup {e}
        /\ users'[e].password = get_password_hash(inflight[r].password)
        /\ users'[e].confirmed = FALSE
        /\ users'[e].refresh_token = NoToken
        /\ \A o \in DOMAIN users \ {e} : users'[o] = users[o]
        /\ bg' = Append(bg, Task(e, NoToken))
        /\ resp'.status = 201
        /\ resp'.email = e
        /\ resp'.enq = 1

C16_Dispatch ==
    send_email
    =>  /\ users' = users
        /\ Head(bg).to \in DOMAIN users'
        /\ resp'.op = "send_email"

\* C16: every signup for a new e-mail stores its account, unconfirmed and
\* without a refresh token, and queues one confirmation notification for it;
\* dispatching a notification writes no account.
C16_Original ==
    [][/\ \A e \in Emails, p \in Passwords : C16_Signup(e, p)
       /\ \A r \in Requests : C16_Created(r)
       /\ C16_Dispatch
       /\ \A i \in 1..Len(bg') : bg'[i].to \in DOMAIN users']_vars


\* ---------------------------------------------------------------------
\* Racing refresh requests (auth.py:82-98), with the history of the
\* exchanges made.
\* ---------------------------------------------------------------------

\* The refresh tokens returned for token to two requests that had both read
\* it as the stored token before either wrote, in the order they wrote.
ReturnedFor(token) ==
    IF token \in DOMAIN exchanged THEN exchanged[token] ELSE << >>

Exchange(token, refresh) ==
    [t \in DOMAIN exchanged \cup {token} |->
        IF t = token THEN Append(ReturnedFor(token), refresh) ELSE exchanged[t]]

\* The request in slot r is about to store, and so is the other request, for
\* the same token: both have read it as the stored one and neither has
\* written.
BothRead(r) ==
    /\ inflight[r].pc = "store_token"
    /\ \E o \in Requests \ {r} :
           /\ inflight[o].pc = "store_token"
           /\ inflight[o].token = inflight[r].token

\* The request in slot r is the one that was about to store when the first
\* of the two wrote: it is still suspended, so it is the one in slot r1.
SecondOfTwo(r) ==
    /\ inflight[r].pc = "store_token"
    /\ r = "r1"
    /\ Len(ReturnedFor(inflight[r].token)) = 1

RecordedRefreshTokenUpdateToken ==
    \E r \in Requests :
        /\ refresh_token_update_token(r)
        /\ exchanged' =
              IF \/ BothRead(r) /\ ReturnedFor(inflight[r].token) = << >>
                 \/ SecondOfTwo(r)
              THEN Exchange(inflight[r].token, inflight[r].refresh)
              ELSE exchanged

\* The handlers of a session: signup and confirmation to get an account that
\* can log in, login, refresh_token and the clock.
RaceNext ==
    \/ Ready /\ Signup /\ UNCHANGED <<cvars, hvars, dvars>>
    \/ Ready /\ SignupCreateUser /\ UNCHANGED <<cvars, hvars, dvars>>
    \/ Ready /\ send_email /\ UNCHANGED <<cvars, hvars, dvars>>
    \/ Ready /\ ConfirmEmail /\ UNCHANGED <<cvars, hvars, dvars>>
    \/ Ready /\ ConfirmEmailGetUserByEmail /\ UNCHANGED <<cvars, hvars, dvars>>
    \/ Ready /\ ConfirmEmailConfirm /\ UNCHANGED <<cvars, hvars, dvars>>
    \/ Ready /\ Login /\ UNCHANGED <<cvars, hvars, dvars>>
    \/ Ready /\ LoginUpdateToken /\ UNCHANGED <<cvars, hvars, dvars>>
    \/ Ready /\ RefreshToken /\ UNCHANGED <<cvars, hvars, dvars>>
    \/ Ready /\ RefreshTokenGetUserByEmail /\ UNCHANGED <<cvars, hvars, dvars>>
    \/ Ready /\ RecordedRefreshTokenUpdateToken /\ UNCHANGED <<cvars, dvars>>
    \/ Ready /\ Tick /\ UNCHANGED <<cvars, hvars, dvars>>
    \/ Respond /\ UNCHANGED <<cvars, hvars, dvars>>

SpecRace == Init /\ [][RaceNext]_allvars

\* Two requests exchanged token: both had read it as the stored token before
\* either wrote.
C17_Raced(token) == Len(ReturnedFor(token)) = 2

\* The request in slot r is the first of the two to write.
C17_FirstWrite(r) ==
    RefreshStores(r) /\ BothRead(r) /\ ReturnedFor(inflight[r].token) = << >>

\* The request in slot r is the second of the two to write.
C17_SecondWrite(r) == RefreshStores(r) /\ SecondOfTwo(r)

C17_BothSucceed(r) ==
    C17_FirstWrite(r) \/ C17_SecondWrite(r)
    =>  /\ resp'.status = 200
        /\ resp'.refresh_token = inflight[r].refresh
        /\ resp'.access_token = inflight[r].access
        /\ resp'.refresh_token # inflight[r].token
        /\ \A i \in 1..Len(ReturnedFor(inflight[r].token)) :
               ReturnedFor(inflight[r].token)[i] # inflight[r].refresh

C17_LastWriteStored(r) ==
    C17_SecondWrite(r)
    =>  /\ users'[inflight[r].email].refresh_token = inflight[r].refresh
        /\ \A t \in {ReturnedFor(inflight[r].token)[1]} : ~Accepted(t)'
        /\ \A t \in AnyToken \cup issued' :
               t.sub = inflight[r].email /\ Accepted(t)' => t = inflight[r].refresh

C17_LastWriteAccepted(r) ==
    C17_SecondWrite(r) => \A t \in {inflight[r].refresh} : Accepted(t)'

C17_LoserPresented(token) ==
    C17_Raced(token) /\ refresh_token(NextSlot, exchanged[token][1])
    =>  SuspendsAt("refresh_lookup")

C17_LoserRejected(token, r) ==
    /\ C17_Raced(token)
    /\ refresh_token_get_user_by_email(r)
    /\ inflight[r].token = exchanged[token][1]
    =>  MovesTo(r, "clear_token")

\* C17, as stated: two requests that present the same stored token and both
\* read the account before either writes both answer 200, each with a new
\* pair; when the second has written, the stored token is the one it wrote,
\* that token is accepted and the first writer's is not; and the first
\* writer's token, when presented, is rejected, answered 401, and the stored
\* token is left null.
C17_Original ==
    [][/\ \A r \in Requests :
             /\ C17_BothSucceed(r)
             /\ C17_LastWriteStored(r)
             /\ C17_LastWriteAccepted(r)
             /\ RejectionClears(r)
       /\ \A token \in DOMAIN exchanged :
             /\ C17_LoserPresented(token)
             /\ \A r \in Requests : C17_LoserRejected(token, r)]_allvars


\* ---------------------------------------------------------------------
\* Login with a call of its path raising (auth.py:43-74)
\* ---------------------------------------------------------------------

LoginFaulty ==
    \E email \in Emails, password \in Passwords, fault \in Faults :
        login_faulty(NextSlot, email, password, fault)

LoginUpdateTokenFaulty == \E r \in Requests : login_update_token_faulty(r)

PasswordResetUpdatePasswordFaulty ==
    \E r \in Requests : password_reset_update_password_faulty(r)

\* The handlers whose awaited calls are inside a try block, login and
\* password_reset_confirm, with and without a call that raises, and the
\* handlers that set what they read: the account, its confirmation, the
\* reset mail.
FaultNext ==
    \/ Ready /\ Signup /\ UNCHANGED <<cvars, hvars, dvars>>
    \/ Ready /\ SignupCreateUser /\ UNCHANGED <<cvars, hvars, dvars>>
    \/ Ready /\ send_email /\ UNCHANGED <<cvars, hvars, dvars>>
    \/ Ready /\ ConfirmEmail /\ UNCHANGED <<cvars, hvars, dvars>>
    \/ Ready /\ ConfirmEmailGetUserByEmail /\ UNCHANGED <<cvars, hvars, dvars>>
    \/ Ready /\ ConfirmEmailConfirm /\ UNCHANGED <<cvars, hvars, dvars>>
    \/ Ready /\ Login /\ UNCHANGED <<cvars, hvars, dvars>>
    \/ Ready /\ LoginUpdateToken /\ UNCHANGED <<cvars, hvars, dvars>>
    \/ Ready /\ PasswordResetRequest /\ UNCHANGED <<cvars, hvars, dvars>>
    \/ Ready /\ PasswordResetConfirm /\ UNCHANGED <<cvars, hvars, dvars>>
    \/ Ready /\ PasswordResetGetUserByEmail /\ UNCHANGED <<cvars, hvars, dvars>>
    \/ Ready /\ PasswordResetUpdatePassword /\ UNCHANGED <<cvars, hvars, dvars>>
    \/ Ready /\ PasswordResetUpdatePasswordFaulty /\ UNCHANGED <<cvars, hvars, dvars>>
    \/ Ready /\ Tick /\ UNCHANGED <<cvars, hvars, dvars>>
    \/ Ready /\ LoginFaulty /\ UNCHANGED <<cvars, hvars, dvars>>
    \/ Ready /\ LoginUpdateTokenFaulty /\ UNCHANGED <<cvars, hvars, dvars>>
    \/ Respond /\ UNCHANGED <<cvars, hvars, dvars>>

SpecFault == Init /\ [][FaultNext]_allvars


\* ---------------------------------------------------------------------
\* password_reset_confirm on a store without the token's account
\* (auth.py:157-178)
\* ---------------------------------------------------------------------

\* A reset mail for an address, sent at time 0 and signed with the service's
\* key.
StaleMail == Mail([sub |-> "a@x.com", scope |-> "email_token", iat |-> 0], "reset")

\* The token outlives the account: it is self-contained, and the account store
\* is a database outside the service.  The service starts on a store that
\* holds no account, with or without a reset mail of before in a client's
\* hands.
ResetInit ==
    /\ users = [e \in {} |-> 0]
    /\ now = 0
    /\ issued = {}
    /\ mailbox \in {{}, {StaleMail}}
    /\ bg = << >>
    /\ resp = NoResponse
    /\ contacts = [i \in {} |-> 0]
    /\ next_id = 1
    /\ inflight = [r \in Requests |-> Idle]
    /\ ret = NoReturn
    /\ calls = [c \in Calls |-> NoCall]
    /\ exchanged = [t \in {} |-> << >>]
    /\ update_token_writes \in UpdateTokenWrites

\* The password-reset handlers, with and without update_password raising,
\* and the handlers that set what they read: the account and the reset mail.
ResetNext ==
    \/ Ready /\ Signup /\ UNCHANGED <<cvars, hvars, dvars>>
    \/ Ready /\ SignupCreateUser /\ UNCHANGED <<cvars, hvars, dvars>>
    \/ Ready /\ send_email /\ UNCHANGED <<cvars, hvars, dvars>>
    \/ Ready /\ PasswordResetRequest /\ UNCHANGED <<cvars, hvars, dvars>>
    \/ Ready /\ PasswordResetConfirm /\ UNCHANGED <<cvars, hvars, dvars>>
    \/ Ready /\ PasswordResetGetUserByEmail /\ UNCHANGED <<cvars, hvars, dvars>>
    \/ Ready /\ PasswordResetUpdatePassword /\ UNCHANGED <<cvars, hvars, dvars>>
    \/ Ready /\ PasswordResetUpdatePasswordFaulty /\ UNCHANGED <<cvars, hvars, dvars>>
    \/ Ready /\ Tick /\ UNCHANGED <<cvars, hvars, dvars>>
    \/ Respond /\ UNCHANGED <<cvars, hvars, dvars>>

SpecReset == ResetInit /\ [][ResetNext]_allvars

\* What login answers before update_token is awaited, or "await" when it
\* gets there, with the call named by f raising.
C18_Expected(e, p, f) ==
    IF f = "lookup" THEN 500
    ELSE IF ~UserExists(e) THEN 401
    ELSE IF ~users[e].confirmed THEN 401
    ELSE IF f = "verify" THEN 500
    ELSE IF ~verify_password(p, users[e].password) THEN 401
    ELSE IF f = "create" THEN 500
    ELSE 0

\* C18: in login, an unknown email, an unconfirmed account and a wrong
\* password are answered 401 and never 500; an exception raised by the
\* account lookup, the password verification, the token creation or the token
\* persistence is answered 500 "Internal server error"; login answers nothing
\* but 201, 401 and 500.
C18_Login(e, p, f) ==
    login_faulty(NextSlot, e, p, f)
    =>  IF C18_Expected(e, p, f) = 0
        THEN SuspendsAt("update_token")
        ELSE resp'.op = "login" /\ resp'.status = C18_Expected(e, p, f)

C18_Persist(r) ==
    /\ login_update_token(r) => resp'.status = 201
    /\ login_update_token_faulty(r) => resp'.status = 500

C18_Answers ==
    resp'.op = "login"
    =>  /\ resp'.status \in {201, 401, 500}
        /\ resp'.status = 500 => resp'.detail = "Internal server error"
        /\ resp'.status = 401 =>
              /\ resp'.detail \in {"Invalid email", "Email not confirmed", "Invalid password"}
              /\ users' = users

C18_LoginFailures ==
    [][/\ \A e \in Emails, p \in Passwords, f \in Faults \cup {"none"} :
             C18_Login(e, p, f)
       /\ \A r \in Requests : C18_Persist(r)
       /\ C18_Answers]_vars

\* C18 witness: a login for a confirmed account was answered 500.
C18_Witness ==
    /\ resp.op = "login"
    /\ resp.status = 500
    /\ resp.email \in DOMAIN users
    /\ users[resp.email].confirmed


\* C19: a login answered 401 writes nothing: every account is as it was, no
\* token is issued, and a refresh token that was accepted before the attempt
\* is accepted after it.
C19_Failed(e, p) ==
    login(NextSlot, e, p) /\ resp'.status = 401
    =>  /\ users' = users
        /\ issued' = issued
        /\ now' = now
        /\ inflight' = inflight
        /\ \A t \in AnyToken : Accepted(t) => Accepted(t)'

C19_FailedLoginWritesNothing ==
    [][\A e \in Emails, p \in Passwords : C19_Failed(e, p)]_vars

\* C19 witness: a wrong-password login was just refused and the account's
\* stored refresh token is still accepted.
C19_Witness ==
    /\ resp.op = "login"
    /\ resp.status = 401
    /\ resp.detail = "Invalid password"
    /\ Stored(resp.email) # NoToken
    /\ Accepted(Stored(resp.email))

\* C20: an account with a stored refresh token is confirmed, and so is an
\* account a suspended request is about to store a token for; so a refresh
\* that answers 200 is for a confirmed account.
C20_StoredImpliesConfirmed ==
    /\ \A e \in DOMAIN users : Stored(e) # NoToken => users[e].confirmed
    /\ \A r \in Requests :
           inflight[r].pc \in {"update_token", "store_token"} =>
               users[inflight[r].email].confirmed
    /\ resp.op = "refresh_token" /\ resp.status = 200 => users[resp.email].confirmed

\* C20 witness: a refresh has just answered 200.
C20_Witness ==
    /\ resp.op = "refresh_token"
    /\ resp.status = 200
    /\ Stored(resp.email) = resp.refresh_token
    /\ users[resp.email].confirmed


\* C21: refresh_token always finds the account of a token that decodes: every
\* refresh token that decodes names an account that is stored, no step
\* removes an account, and refresh_token never fails on a missing account
\* (it answers 200 or 401 only).
C21_DecodedHasAccount ==
    \A t \in AnyToken : t.scope = "refresh_token" /\ t \in Signed => UserExists(t.sub)

C21_InFlightHasAccount ==
    \A r \in Requests :
        inflight[r].pc = "refresh_lookup" => UserExists(inflight[r].email)

C21_Decoded(t) ==
    refresh_token(NextSlot, t) =>
        /\ resp'.status # 500
        /\ decode_refresh_token_ok(t) =>
              /\ UserExists(t.sub)
              /\ SuspendsAt("refresh_lookup")
              /\ inflight'[NextSlot].email = t.sub

C21_Lookup(r) ==
    refresh_token_get_user_by_email(r) =>
        /\ UserExists(inflight[r].email)
        /\ MovesTo(r, "clear_token") \/ MovesTo(r, "store_token")

\* C21: the lookup of refresh_token finds an account for every token that
\* decoded.
C21_RefreshFindsAccount ==
    [][/\ C21_DecodedHasAccount
       /\ C21_DecodedHasAccount'
       /\ C21_InFlightHasAccount
       /\ DOMAIN users \subseteq DOMAIN users'
       /\ resp'.op = "refresh_token" => resp'.status \in {200, 401}
       /\ \A t \in Presentable : C21_Decoded(t)
       /\ \A r \in Requests : C21_Lookup(r)]_vars

\* C21 witness: a presented refresh token decoded and the lookup by its
\* subject found the account that was then compared.
C21_Witness ==
    /\ resp.op = "refresh_token"
    /\ resp.token.scope = "refresh_token"
    /\ resp.email = resp.token.sub
    /\ UserExists(resp.email)
    /\ resp.status \in {200, 401}

====
